---- MODULE Spec2Model ----
(***************************************************************************)
(* komsi-lib: the KOMSI command encoder (src/src/komsi.rs) and the vehicle *)
(* state diff VehicleState::compare (src/src/vehicle.rs).                  *)
(***************************************************************************)
EXTENDS Integers, Sequences, FiniteSets, TLC

(***************************************************************************)
(* Bounds of the model.                                                    *)
(***************************************************************************)
\* a pair of snapshots (self, new) has at most MaxSet non-zero fields in all
MaxSet == 2
\* a failing logger panics on its n-th call, n in 1..MaxFailAt
MaxFailAt == 2
\* number of simulation ticks of the sender/receiver run
MaxTicks == 2

(***************************************************************************)
(* KomsiCommandKind (#[repr(u8)]): the discriminant of every variant.      *)
(***************************************************************************)
EOL == 10
Ignition == 65
Engine == 66
PassengerDoorsOpen == 67
Indicator == 68
FixingBrake == 69
LightsWarning == 70
LightsMain == 71
LightsFrontDoor == 72
LightsSecondDoor == 73
LightsThirdDoor == 74
LightsStopRequest == 75
LightsStopBrake == 76
LightsHighBeam == 77
BatteryLight == 78
SimulatorType == 79
DoorEnable == 80
A17 == 81
A18 == 82
A19 == 83
A20 == 84
A21 == 85
A22 == 86
A23 == 87
A24 == 88
A25 == 89
A26 == 90
MaxSpeed == 115
RPM == 116
Pressure == 117
Temperature == 118
Oil == 119
Fuel == 120
Speed == 121
Water == 122

KomsiCommandKind ==
    { EOL, Ignition, Engine, PassengerDoorsOpen, Indicator, FixingBrake,
      LightsWarning, LightsMain, LightsFrontDoor, LightsSecondDoor,
      LightsThirdDoor, LightsStopRequest, LightsStopBrake, LightsHighBeam,
      BatteryLight, SimulatorType, DoorEnable, A17, A18, A19, A20, A21, A22,
      A23, A24, A25, A26, MaxSpeed, RPM, Pressure, Temperature, Oil, Fuel,
      Speed, Water }

(***************************************************************************)
(* VehicleState: a record with the twenty fields of the struct.            *)
(***************************************************************************)
U8Fields ==
    { "ignition", "engine", "doors", "indicator", "fixing_brake",
      "lights_warning", "lights_main", "lights_front_door",
      "lights_second_door", "lights_third_door", "lights_fourth_door",
      "lights_stop_request", "lights_stop_brake", "lights_high_beam",
      "battery_light", "gear_selector", "door_enable" }

U32Fields == { "speed", "maxspeed", "fuel" }

FieldNames == U8Fields \cup U32Fields

\* values of a u8 field the model draws from (the type holds 0..255)
U8Values == { 0, 1, 255 }

\* values of a u32 field the model draws from (the type holds 0..2^32-1; the
\* largest value here is the largest one the model checker's integers hold)
U32Values == { 0, 50, 2147483647 }

FieldValues(f) == IF f \in U32Fields THEN U32Values ELSE U8Values

\* VehicleState::default(): every field zero
Default == [f \in FieldNames |-> 0]

\* VehicleState::new()
VehicleStateNew == Default

(***************************************************************************)
(* Command encoder.                                                        *)
(***************************************************************************)
\* u32::to_string / u8::to_string followed by as_bytes(): the decimal ASCII
\* digits of wert, most significant first
\* to_string as a fixed-width conversion: at least two digits
to_string_padded(wert) ==
    LET nd == 1 + Cardinality({ e \in 1..9 : wert >= 10 ^ e })
        ds == [i \in 1..nd |-> 48 + ((wert \div (10 ^ (nd - i))) % 10)]
    IN  IF wert < 10 THEN << 48 >> \o ds ELSE ds

RECURSIVE to_string(_)
to_string(wert) ==
    IF wert < 10 THEN << 48 + wert >>
    ELSE to_string(wert \div 10) \o << 48 + (wert % 10) >>

build_komsi_command(cmd, wert) ==
    LET cmd_u8 == cmd
        buffer == << cmd_u8 >>
        s      == to_string(wert)
    IN  buffer \o s

\* build_komsi_command_u8 ending every command with a line end
build_komsi_command_u8_newline(cmd, wert) ==
    << cmd >> \o to_string(wert) \o << EOL >>

build_komsi_command_u8(cmd, wert) ==
    LET cmd_u8 == cmd
        buffer == << cmd_u8 >>
        s      == to_string(wert)
    IN  buffer \o s

build_komsi_command_eol ==
    LET cmd_u8 == EOL
        buffer == << cmd_u8 >>
    IN  buffer

(***************************************************************************)
(* Logger.  logger is None or Some(l); l.log(msg) either records msg or    *)
(* panics.  failAt = 0 is a logger that never fails (tests::TestLogger),   *)
(* failAt = n > 0 one that panics on its n-th call.                        *)
(***************************************************************************)
None == [some |-> FALSE, failAt |-> 0]

Some(n) == [some |-> TRUE, failAt |-> n]

Loggers == { None } \cup { Some(n) : n \in 0..MaxFailAt }

\* format_u8 with the two values swapped
format_u8_swapped(field_name, old_value, new_value) ==
    << field_name, ": ", to_string(new_value), " -> ", to_string(old_value), " " >>

\* format!("{}: {} -> {} ", field_name, old_value, new_value)
format_u8(field_name, old_value, new_value) ==
    << field_name, ": ", to_string(old_value), " -> ", to_string(new_value), " " >>

\* format!("{}:  {} -> {} ", field_name, old_value, new_value)
format_u32(field_name, old_value, new_value) ==
    << field_name, ":  ", to_string(old_value), " -> ", to_string(new_value), " " >>

(***************************************************************************)
(* The frame of one compare call: the local buffer, what the logger has    *)
(* recorded, and the history of the call (commands built, fields checked). *)
(* panicked is set when the logger panics; the unwinding skips every       *)
(* statement that follows.                                                 *)
(***************************************************************************)
EmptyFrame ==
    [buffer |-> << >>, logs |-> << >>, cmds |-> << >>, checked |-> << >>,
     panicked |-> FALSE]

\* l.log(msg)
log(l, msg, fr) ==
    IF l.failAt = Len(fr.logs) + 1
    THEN [fr EXCEPT !.panicked = TRUE]
    ELSE [fr EXCEPT !.logs = Append(@, msg)]

\* handle_u8_field_change encoding the old value
handle_u8_field_change_old_value(old_value, new_value, field_name, command_kind, logger, force, fr) ==
    IF fr.panicked THEN fr
    ELSE
      LET f0 == [fr EXCEPT !.checked = Append(@, field_name)] IN
      IF (old_value # new_value) \/ force
      THEN LET f1 == IF logger.some
                     THEN log(logger, format_u8(field_name, old_value, new_value), f0)
                     ELSE f0
               b  == build_komsi_command_u8(command_kind, old_value)
           IN  IF f1.panicked THEN f1
               ELSE [f1 EXCEPT !.buffer = @ \o b,
                               !.cmds = Append(@, [kind |-> command_kind, wert |-> new_value])]
      ELSE f0


\* handle_u8_field_change emitting whether or not the field changed
handle_u8_field_change_always(old_value, new_value, field_name, command_kind, logger, force, fr) ==
    IF fr.panicked THEN fr
    ELSE
      LET f0 == [fr EXCEPT !.checked = Append(@, field_name)] IN
      IF TRUE
      THEN LET f1 == IF logger.some
                     THEN log(logger, format_u8(field_name, old_value, new_value), f0)
                     ELSE f0
               b  == build_komsi_command_u8(command_kind, new_value)
           IN  IF f1.panicked THEN f1
               ELSE [f1 EXCEPT !.buffer = @ \o b,
                               !.cmds = Append(@, [kind |-> command_kind, wert |-> new_value])]
      ELSE f0


\* handle_u8_field_change ignoring force
handle_u8_field_change_no_force(old_value, new_value, field_name, command_kind, logger, force, fr) ==
    IF fr.panicked THEN fr
    ELSE
      LET f0 == [fr EXCEPT !.checked = Append(@, field_name)] IN
      IF (old_value # new_value)
      THEN LET f1 == IF logger.some
                     THEN log(logger, format_u8(field_name, old_value, new_value), f0)
                     ELSE f0
               b  == build_komsi_command_u8(command_kind, new_value)
           IN  IF f1.panicked THEN f1
               ELSE [f1 EXCEPT !.buffer = @ \o b,
                               !.cmds = Append(@, [kind |-> command_kind, wert |-> new_value])]
      ELSE f0


\* handle_u8_field_change appending only when no logger is given
handle_u8_field_change_log_only(old_value, new_value, field_name, command_kind, logger, force, fr) ==
    IF fr.panicked THEN fr
    ELSE
      LET f0 == [fr EXCEPT !.checked = Append(@, field_name)] IN
      IF (old_value # new_value) \/ force
      THEN LET f1 == IF logger.some
                     THEN log(logger, format_u8(field_name, old_value, new_value), f0)
                     ELSE f0
               b  == build_komsi_command_u8(command_kind, new_value)
           IN  IF f1.panicked \/ logger.some THEN f1
               ELSE [f1 EXCEPT !.buffer = @ \o b,
                               !.cmds = Append(@, [kind |-> command_kind, wert |-> new_value])]
      ELSE f0


\* handle_u8_field_change appending the command before it notifies the logger
handle_u8_field_change_append_first(old_value, new_value, field_name, command_kind, logger, force, fr) ==
    IF fr.panicked THEN fr
    ELSE
      LET f0 == [fr EXCEPT !.checked = Append(@, field_name)] IN
      IF (old_value # new_value) \/ force
      THEN LET f1 == IF logger.some
                     THEN log(logger, format_u8(field_name, old_value, new_value), f0)
                     ELSE f0
               b  == build_komsi_command_u8(command_kind, new_value)
           IN  IF f1.panicked
               THEN [f1 EXCEPT !.buffer = @ \o b,
                               !.cmds = Append(@, [kind |-> command_kind, wert |-> new_value])]
               ELSE [f1 EXCEPT !.buffer = @ \o b,
                               !.cmds = Append(@, [kind |-> command_kind, wert |-> new_value])]
      ELSE f0


handle_u8_field_change(old_value, new_value, field_name, command_kind, logger, force, fr) ==
    IF fr.panicked THEN fr
    ELSE
      LET f0 == [fr EXCEPT !.checked = Append(@, field_name)] IN
      IF (old_value # new_value) \/ force
      THEN LET f1 == IF logger.some
                     THEN log(logger, format_u8(field_name, old_value, new_value), f0)
                     ELSE f0
               b  == build_komsi_command_u8(command_kind, new_value)
           IN  IF f1.panicked THEN f1
               ELSE [f1 EXCEPT !.buffer = @ \o b,
                               !.cmds = Append(@, [kind |-> command_kind, wert |-> new_value])]
      ELSE f0

handle_u32_field_change(old_value, new_value, field_name, command_kind, logger, force, fr) ==
    IF fr.panicked THEN fr
    ELSE
      LET f0 == [fr EXCEPT !.checked = Append(@, field_name)] IN
      IF (old_value # new_value) \/ force
      THEN LET f1 == IF logger.some
                     THEN log(logger, format_u32(field_name, old_value, new_value), f0)
                     ELSE f0
               b  == build_komsi_command(command_kind, new_value)
           IN  IF f1.panicked THEN f1
               ELSE [f1 EXCEPT !.buffer = @ \o b,
                               !.cmds = Append(@, [kind |-> command_kind, wert |-> new_value])]
      ELSE f0

\* compare with the gear selector wired in as a nineteenth field
compare_with_gear(self, new, force, logger) ==
    LET b0  == EmptyFrame
        b1  == handle_u8_field_change(self.ignition, new.ignition, "ignition", Ignition, logger, force, b0)
        b2  == handle_u8_field_change(self.engine, new.engine, "engine", Engine, logger, force, b1)
        b3  == handle_u8_field_change(self.doors, new.doors, "doors", PassengerDoorsOpen, logger, force, b2)
        b4  == handle_u8_field_change(self.fixing_brake, new.fixing_brake, "fixing_brake", FixingBrake, logger, force, b3)
        b5  == handle_u8_field_change(self.indicator, new.indicator, "indicator", Indicator, logger, force, b4)
        b6  == handle_u8_field_change(self.lights_warning, new.lights_warning, "lights_warning", LightsWarning, logger, force, b5)
        b7  == handle_u8_field_change(self.lights_main, new.lights_main, "lights_main", LightsMain, logger, force, b6)
        b8  == handle_u8_field_change(self.lights_stop_request, new.lights_stop_request, "lights_stop_request", LightsStopRequest, logger, force, b7)
        b9  == handle_u8_field_change(self.lights_stop_brake, new.lights_stop_brake, "lights_stop_brake", LightsStopBrake, logger, force, b8)
        b10 == handle_u8_field_change(self.lights_front_door, new.lights_front_door, "lights_front_door", LightsFrontDoor, logger, force, b9)
        b11 == handle_u8_field_change(self.lights_second_door, new.lights_second_door, "lights_second_door", LightsSecondDoor, logger, force, b10)
        b12 == handle_u8_field_change(self.lights_third_door, new.lights_third_door, "lights_third_door", LightsThirdDoor, logger, force, b11)
        b13 == handle_u8_field_change(self.lights_high_beam, new.lights_high_beam, "lights_high_beam", LightsHighBeam, logger, force, b12)
        b14 == handle_u32_field_change(self.fuel, new.fuel, "fuel", Fuel, logger, force, b13)
        b15 == handle_u32_field_change(self.speed, new.speed, "speed", Speed, logger, force, b14)
        b16 == handle_u32_field_change(self.maxspeed, new.maxspeed, "maxspeed", MaxSpeed, logger, force, b15)
        b17 == handle_u8_field_change(self.battery_light, new.battery_light, "battery_light", BatteryLight, logger, force, b16)
        b18 == handle_u8_field_change(self.door_enable, new.door_enable, "door_enable", DoorEnable, logger, force, b17)
        b19 == handle_u8_field_change(self.gear_selector, new.gear_selector, "gear_selector", A17, logger, force, b18)
    IN  IF b19.panicked THEN b19
        ELSE IF Len(b19.buffer) > 0
             THEN [b19 EXCEPT !.buffer = @ \o build_komsi_command_eol]
             ELSE b19

\* VehicleState::compare(&self, new, force, logger): the frame at the return
\* (or at the panic)
compare(self, new, force, logger) ==
    LET b0  == EmptyFrame
        b1  == handle_u8_field_change(self.ignition, new.ignition, "ignition", Ignition, logger, force, b0)
        b2  == handle_u8_field_change(self.engine, new.engine, "engine", Engine, logger, force, b1)
        b3  == handle_u8_field_change(self.doors, new.doors, "doors", PassengerDoorsOpen, logger, force, b2)
        b4  == handle_u8_field_change(self.fixing_brake, new.fixing_brake, "fixing_brake", FixingBrake, logger, force, b3)
        b5  == handle_u8_field_change(self.indicator, new.indicator, "indicator", Indicator, logger, force, b4)
        b6  == handle_u8_field_change(self.lights_warning, new.lights_warning, "lights_warning", LightsWarning, logger, force, b5)
        b7  == handle_u8_field_change(self.lights_main, new.lights_main, "lights_main", LightsMain, logger, force, b6)
        b8  == handle_u8_field_change(self.lights_stop_request, new.lights_stop_request, "lights_stop_request", LightsStopRequest, logger, force, b7)
        b9  == handle_u8_field_change(self.lights_stop_brake, new.lights_stop_brake, "lights_stop_brake", LightsStopBrake, logger, force, b8)
        b10 == handle_u8_field_change(self.lights_front_door, new.lights_front_door, "lights_front_door", LightsFrontDoor, logger, force, b9)
        b11 == handle_u8_field_change(self.lights_second_door, new.lights_second_door, "lights_second_door", LightsSecondDoor, logger, force, b10)
        b12 == handle_u8_field_change(self.lights_third_door, new.lights_third_door, "lights_third_door", LightsThirdDoor, logger, force, b11)
        b13 == handle_u8_field_change(self.lights_high_beam, new.lights_high_beam, "lights_high_beam", LightsHighBeam, logger, force, b12)
        b14 == handle_u32_field_change(self.fuel, new.fuel, "fuel", Fuel, logger, force, b13)
        b15 == handle_u32_field_change(self.speed, new.speed, "speed", Speed, logger, force, b14)
        b16 == handle_u32_field_change(self.maxspeed, new.maxspeed, "maxspeed", MaxSpeed, logger, force, b15)
        b17 == handle_u8_field_change(self.battery_light, new.battery_light, "battery_light", BatteryLight, logger, force, b16)
        b18 == handle_u8_field_change(self.door_enable, new.door_enable, "door_enable", DoorEnable, logger, force, b17)
    IN  IF b18.panicked THEN b18
        ELSE IF Len(b18.buffer) > 0
             THEN [b18 EXCEPT !.buffer = @ \o build_komsi_command_eol]
             ELSE b18

(***************************************************************************)
(* Inputs: the snapshots the model draws from.                             *)
(***************************************************************************)
\* the values the fields of self are drawn from: zero and one other value
SelfValues(f) == IF f \in U32Fields THEN { 0, 50 } ELSE { 0, 1 }

Weight(s) == Cardinality({ f \in FieldNames : s[f] # 0 })

\* the snapshots with at most n non-zero fields, for new
RECURSIVE Within(_)
Within(n) ==
    IF n = 0 THEN { Default }
    ELSE LET S == Within(n - 1)
         IN  S \cup UNION { { [s EXCEPT ![f] = v] : s \in S, v \in FieldValues(f) } :
                             f \in FieldNames }

\* the snapshots with at most n non-zero fields, for self
RECURSIVE SelfWithin(_)
SelfWithin(n) ==
    IF n = 0 THEN { Default }
    ELSE LET S == SelfWithin(n - 1)
         IN  S \cup UNION { { [s EXCEPT ![f] = v] : s \in S, v \in SelfValues(f) } :
                             f \in FieldNames }

\* the snapshots with exactly n non-zero fields, for self
Exactly(n) == { s \in SelfWithin(n) : Weight(s) = n }

SnapshotPairs ==
    UNION { Exactly(i) \X Within(MaxSet - i) : i \in 0..MaxSet }

(***************************************************************************)
(* The receiver of the byte stream: it scans byte by byte, a byte outside  *)
(* 48..57 starts a new command (or is the terminator) and the digit bytes  *)
(* that follow are the command's value.                                    *)
(***************************************************************************)
IsDigit(b) == b \in 48..57

\* the value of the digit bytes buf[i..j]
RECURSIVE DigitsValue(_, _, _)
DigitsValue(buf, i, j) ==
    IF j < i THEN 0
    ELSE DigitsValue(buf, i, j - 1) * 10 + (buf[j] - 48)

\* the positions at which a command (or the terminator) starts
Starts(buf) ==
    SelectSeq([i \in 1..Len(buf) |-> i], LAMBDA i : ~IsDigit(buf[i]))

\* the commands read from buf: code byte, value and number of digit bytes
Parse(buf) ==
    LET st == Starts(buf)
        end(k) == IF k < Len(st) THEN st[k + 1] - 1 ELSE Len(buf)
    IN  [k \in 1..Len(st) |->
           [kind   |-> buf[st[k]],
            wert   |-> DigitsValue(buf, st[k] + 1, end(k)),
            digits |-> end(k) - st[k]]]

\* the tracked fields in the order compare walks them, and their codes
CanonicalOrder ==
    << "ignition", "engine", "doors", "fixing_brake", "indicator",
       "lights_warning", "lights_main", "lights_stop_request",
       "lights_stop_brake", "lights_front_door", "lights_second_door",
       "lights_third_door", "lights_high_beam", "fuel", "speed", "maxspeed",
       "battery_light", "door_enable" >>

CodeOf ==
    [ ignition |-> 65, engine |-> 66, doors |-> 67, fixing_brake |-> 69,
      indicator |-> 68, lights_warning |-> 70, lights_main |-> 71,
      lights_stop_request |-> 75, lights_stop_brake |-> 76,
      lights_front_door |-> 72, lights_second_door |-> 73,
      lights_third_door |-> 74, lights_high_beam |-> 77, fuel |-> 120,
      speed |-> 121, maxspeed |-> 115, battery_light |-> 78,
      door_enable |-> 80 ]

TrackedFields == { CanonicalOrder[i] : i \in 1..Len(CanonicalOrder) }

StateOnlyFields == FieldNames \ TrackedFields

View(s) == [f \in TrackedFields |-> s[f]]

\* the receiver sets the field of each received command to its value
Receive(view, buf) ==
    LET cs == Parse(buf)
        at(f) == { i \in 1..Len(cs) : cs[i].kind = CodeOf[f] }
        last(S) == CHOOSE i \in S : \A j \in S : j <= i
    IN  [f \in TrackedFields |->
           IF at(f) = { } THEN view[f] ELSE cs[last(at(f))].wert]

(***************************************************************************)
(* State.                                                                  *)
(***************************************************************************)
VARIABLES
    self,      \* the snapshot compare is called on ("before")
    new,       \* the snapshot it is compared with ("after")
    force,     \* the force argument
    logger,    \* the logger argument
    pc,        \* "call", "returned", "panicked", "again"
    buffer,    \* the local buffer of the call
    ret,       \* << >> while nothing was returned, << v >> once v was returned
    logs,      \* the messages the logger has recorded
    cmds,      \* the commands built by the call, in order
    checked,   \* the fields the call has compared, in order
    logger2,   \* the logger of the repeated call
    ret2,      \* what the repeated call returned
    s0,        \* the snapshot the sender and the receiver start from
    rx,        \* the receiver's view of the tracked fields
    stream,    \* every byte sent so far
    ticks      \* number of ticks so far

vars == << self, new, force, logger, pc, buffer, ret, logs, cmds, checked,
           logger2, ret2, s0, rx, stream, ticks >>

(***************************************************************************)
(* One call of compare on drawn inputs, and a repeated call on the same    *)
(* inputs.                                                                 *)
(***************************************************************************)
Init ==
    /\ \E p \in SnapshotPairs : self = p[1] /\ new = p[2]
    /\ force \in BOOLEAN
    /\ logger \in Loggers
    /\ pc = "call"
    /\ buffer = << >>
    /\ ret = << >>
    /\ logs = << >>
    /\ cmds = << >>
    /\ checked = << >>
    /\ logger2 = None
    /\ ret2 = << >>
    /\ s0 = VehicleStateNew
    /\ rx = View(VehicleStateNew)
    /\ stream = << >>
    /\ ticks = 0

\* self.compare(&new, force, logger)
Compare ==
    /\ pc = "call"
    /\ LET fr == compare(self, new, force, logger) IN
         /\ buffer' = fr.buffer
         /\ logs' = fr.logs
         /\ cmds' = fr.cmds
         /\ checked' = fr.checked
         /\ pc' = IF fr.panicked THEN "panicked" ELSE "returned"
         /\ ret' = IF fr.panicked THEN << >> ELSE << fr.buffer >>
    /\ UNCHANGED << self, new, force, logger, logger2, ret2, s0, rx, stream, ticks >>

\* the same call again, with no logger or with a logger that does not fail
CompareAgain ==
    /\ pc = "returned"
    /\ \E l \in { None, Some(0) } :
         /\ logger2' = l
         /\ ret2' = << compare(self, new, force, l).buffer >>
    /\ pc' = "again"
    /\ UNCHANGED << self, new, force, logger, buffer, ret, logs, cmds, checked,
                    s0, rx, stream, ticks >>

Next == Compare \/ CompareAgain

Spec == Init /\ [][Next]_vars

(***************************************************************************)
(* A sender that emits self.compare(&new, false, None) at every tick and a *)
(* receiver that applies what it receives.                                 *)
(***************************************************************************)
\* the value a tick switches a field to
On(f) == IF f \in U32Fields THEN 50 ELSE 1

AllOn == [f \in FieldNames |-> IF f \in U32Fields THEN 2147483647 ELSE 255]

Flip(s, f) == [s EXCEPT ![f] = IF @ = 0 THEN On(f) ELSE 0]

TickNext(s) == { s, Default, AllOn } \cup { Flip(s, f) : f \in FieldNames }

InitTicks ==
    /\ s0 \in TickNext(Default)
    /\ self = s0
    /\ new = s0
    /\ rx = View(s0)
    /\ force = FALSE
    /\ logger = None
    /\ pc = "call"
    /\ buffer = << >>
    /\ ret = << >>
    /\ logs = << >>
    /\ cmds = << >>
    /\ checked = << >>
    /\ logger2 = None
    /\ ret2 = << >>
    /\ stream = << >>
    /\ ticks = 0

Tick ==
    /\ ticks < MaxTicks
    /\ \E next \in TickNext(new) :
         LET fr == compare(new, next, FALSE, None) IN
           /\ self' = new
           /\ new' = next
           /\ buffer' = fr.buffer
           /\ logs' = fr.logs
           /\ cmds' = fr.cmds
           /\ checked' = fr.checked
           /\ ret' = << fr.buffer >>
           /\ stream' = stream \o fr.buffer
           /\ rx' = Receive(rx, fr.buffer)
    /\ pc' = "returned"
    /\ ticks' = ticks + 1
    /\ UNCHANGED << force, logger, logger2, ret2, s0 >>

NextTicks == Tick

SpecTicks == InitTicks /\ [][NextTicks]_vars

(***************************************************************************)
(* What the properties are stated with.                                    *)
(***************************************************************************)
Changed(f) == self[f] # new[f]

\* the tracked fields that differ, in canonical order
ChangedSeq == SelectSeq(CanonicalOrder, LAMBDA f : Changed(f))

\* the tracked fields the call has to emit, in canonical order
EmitSeq == SelectSeq(CanonicalOrder, LAMBDA f : force \/ Changed(f))

\* the number of decimal digits of n, and its decimal ASCII digits
NumDigits(n) == 1 + Cardinality({ e \in 1..9 : n >= 10 ^ e })

Decimal(n) ==
    [i \in 1..NumDigits(n) |-> 48 + ((n \div (10 ^ (NumDigits(n) - i))) % 10)]

\* the command of field f carrying its value in new
CommandOf(f) == [kind |-> CodeOf[f], wert |-> new[f]]

RECURSIVE Serialized(_)
Serialized(cs) ==
    IF cs = << >> THEN << >>
    ELSE << Head(cs).kind >> \o Decimal(Head(cs).wert) \o Serialized(Tail(cs))

CommandsOf(fs) == [i \in 1..Len(fs) |-> CommandOf(fs[i])]

Last(q) == q[Len(q)]

Returned == pc \in { "returned", "again" }

CodeBytes == (65..90) \cup (115..122)

(***************************************************************************)
(* C1  Minimality: with force = false, compare emits exactly one command   *)
(* per tracked field that differs between self and new, carrying the value *)
(* in new, in canonical order, and, when some field differs, the buffer is *)
(* these commands followed by the terminator byte 10.                      *)
(***************************************************************************)
MinimalityC1 ==
    (Returned /\ ~force) =>
        /\ cmds = CommandsOf(ChangedSeq)
        /\ ChangedSeq # << >> =>
             ret[1] = Serialized(CommandsOf(ChangedSeq)) \o << 10 >>

\* tests::test_compare_with_changes: ignition 0 -> 1 and speed 0 -> 50
MinimalityC1Witness ==
    /\ Returned /\ ~force
    /\ self = Default
    /\ new = [Default EXCEPT !.ignition = 1, !.speed = 50]
    /\ ret = << << 65, 49, 121, 53, 48, 10 >> >>

(***************************************************************************)
(* C2  No change: S.compare(S, false, None) returns the empty buffer.      *)
(***************************************************************************)
NoChangeC2 ==
    (Returned /\ self = new /\ ~force /\ logger = None) => ret = << << >> >>

NoChangeC2Witness ==
    /\ Returned /\ self = new /\ ~force /\ logger = None
    /\ self # Default
    /\ ret = << << >> >>

(***************************************************************************)
(* C3  Force completeness: S.compare(S, true, None) returns a non-empty    *)
(* buffer that ends with byte 10 and holds exactly 18 commands, one per    *)
(* tracked field in canonical order, each with the field's current value.  *)
(***************************************************************************)
ForceCompletenessC3 ==
    (Returned /\ self = new /\ force /\ logger = None) =>
        /\ ret[1] # << >>
        /\ Last(ret[1]) = 10
        /\ Len(cmds) = 18
        /\ cmds = [i \in 1..18 |-> [kind |-> CodeOf[CanonicalOrder[i]],
                                    wert |-> self[CanonicalOrder[i]]]]
        /\ ret[1] = Serialized(cmds) \o << 10 >>

ForceCompletenessC3Witness ==
    /\ Returned /\ self = new /\ force /\ logger = None
    /\ self.speed = 50
    /\ Len(ret[1]) = 38

(***************************************************************************)
(* C4  Framing: the returned buffer is the serialized commands followed by *)
(* one terminator byte iff a command was appended; byte 10 occurs only as  *)
(* the last byte, and a buffer with no command is empty.                   *)
(***************************************************************************)
FramingC4 ==
    Returned =>
        /\ ret[1] = IF cmds = << >> THEN << >> ELSE Serialized(cmds) \o << 10 >>
        /\ \A i \in 1..Len(ret[1]) : ret[1][i] = 10 <=> i = Len(ret[1])
        /\ \A i \in 1..Len(ret[1]) : ret[1][i] \in CodeBytes \cup (48..57) \cup { 10 }

FramingC4Witness ==
    /\ Returned /\ logger.some /\ ~force
    /\ Len(cmds) = 2
    /\ Last(ret[1]) = 10

(***************************************************************************)
(* C5  Logger non-interference: a repeated call on the same inputs, with   *)
(* no logger or with a logger that does not fail, returns the same bytes.  *)
(***************************************************************************)
NonInterferenceC5 ==
    pc = "again" => ret2 = ret

NonInterferenceC5Witness ==
    /\ pc = "again"
    /\ logger.some /\ ~logger2.some
    /\ logs # << >>
    /\ ret2 = ret /\ ret[1] # << >>

(***************************************************************************)
(* C6  Logger fidelity: with a logger, every tracked field that changed is *)
(* notified exactly once, the notification names the field and holds its   *)
(* old value and then its new value; with force = false there is no other  *)
(* notification, so none at all when nothing changed.                      *)
(***************************************************************************)
LoggerFidelityC6 ==
    (Returned /\ logger.some) =>
        /\ \A f \in TrackedFields :
             Changed(f) =>
               /\ Cardinality({ i \in 1..Len(logs) : logs[i][1] = f }) = 1
               /\ \A i \in 1..Len(logs) :
                    logs[i][1] = f =>
                      /\ logs[i][3] = Decimal(self[f]) /\ logs[i][4] = " -> "
                      /\ logs[i][5] = Decimal(new[f])
        /\ ~force => Len(logs) = Len(ChangedSeq)
        /\ \A i \in 1..Len(logs) : logs[i][1] \in TrackedFields

\* tests::test_compare_with_logger: one message, "ignition: 0 -> 1 "
LoggerFidelityC6Witness ==
    /\ Returned /\ logger.some /\ ~force
    /\ self = Default /\ new = [Default EXCEPT !.ignition = 1]
    /\ logs = << << "ignition", ": ", << 48 >>, " -> ", << 49 >>, " " >> >>

(***************************************************************************)
(* C7  Self-framing round trip: every code byte compare uses lies in       *)
(* 65..90 or 115..122, every value is written with its minimal decimal     *)
(* digits (0 as the single byte 48), and scanning the returned buffer byte *)
(* by byte recovers exactly the commands emitted, ended by the terminator. *)
(***************************************************************************)
RoundTripC7 ==
    Returned =>
        /\ \A i \in 1..Len(cmds) : cmds[i].kind \in CodeBytes
        /\ Parse(ret[1]) =
             IF cmds = << >> THEN << >>
             ELSE [i \in 1..Len(cmds) |->
                     [kind |-> cmds[i].kind, wert |-> cmds[i].wert,
                      digits |-> NumDigits(cmds[i].wert)]]
                  \o << [kind |-> 10, wert |-> 0, digits |-> 0] >>

\* a value of 0 next to a ten-digit value
RoundTripC7Witness ==
    /\ Returned /\ ~force
    /\ self.ignition = 1 /\ new.ignition = 0
    /\ self.fuel = 0 /\ new.fuel = 2147483647
    /\ ret[1] = << 65, 48, 120, 50, 49, 52, 55, 52, 56, 51, 54, 52, 55, 10 >>

(***************************************************************************)
(* C8  A failing logger aborts the pass: nothing is returned, the field of *)
(* the failing notification is not encoded, no later field is checked,     *)
(* logged or encoded, and every earlier field that had to be emitted was   *)
(* logged and encoded exactly once.                                        *)
(***************************************************************************)
AbortC8 ==
    pc = "panicked" =>
        LET k      == Len(checked)
            before == SelectSeq(SubSeq(CanonicalOrder, 1, k - 1),
                                LAMBDA f : force \/ Changed(f))
        IN  /\ ret = << >>
            /\ k \in 1..18
            /\ checked = SubSeq(CanonicalOrder, 1, k)
            /\ force \/ Changed(CanonicalOrder[k])
            /\ cmds = CommandsOf(before)
            /\ buffer = Serialized(CommandsOf(before))
            /\ Len(logs) = Len(before)
            /\ \A i \in 1..Len(logs) : logs[i][1] = before[i]
            /\ logger.failAt = Len(before) + 1

AbortC8Witness ==
    /\ pc = "panicked"
    /\ Len(cmds) = 1 /\ Len(logs) = 1
    /\ \E j \in (Len(checked) + 1)..18 : Changed(CanonicalOrder[j])

(***************************************************************************)
(* C9  Receiver convergence: after any sequence of ticks, each sending     *)
(* compare(previous, current, false, None), the receiver's view equals the *)
(* current snapshot on the 18 tracked fields, and so does the view reached *)
(* from the first snapshot by the single buffer compare(first, current).   *)
(***************************************************************************)
ConvergenceC9 ==
    /\ rx = View(new)
    /\ Receive(View(s0), compare(s0, new, FALSE, None).buffer) = View(new)

\* two ticks whose concatenated buffers differ from the single buffer
ConvergenceC9Witness ==
    /\ ticks >= 2
    /\ new # s0 /\ self # new /\ self # s0
    /\ stream # compare(s0, new, FALSE, None).buffer
    /\ compare(s0, new, FALSE, None).buffer # << >>
    /\ rx = View(new)

(***************************************************************************)
(* C10  State-only fields: for snapshots that agree on the 18 tracked      *)
(* fields and differ in lights_fourth_door or gear_selector, compare with  *)
(* force = false returns the empty buffer and notifies nobody, and with    *)
(* force = true returns the buffer it returns when the two fields agree.   *)
(***************************************************************************)
StateOnlyC10 ==
    (Returned /\ View(self) = View(new) /\ self # new) =>
        /\ ~force => (ret[1] = << >> /\ logs = << >>)
        /\ force =>
             /\ Len(cmds) = 18
             /\ ret[1] = compare(self, self, TRUE, None).buffer
             /\ ret[1] = compare(new, new, TRUE, None).buffer

StateOnlyC10Witness ==
    /\ Returned /\ ~force /\ logger.some
    /\ View(self) = View(new)
    /\ self.gear_selector # new.gear_selector
    /\ self.lights_fourth_door # new.lights_fourth_door
    /\ ret = << << >> >> /\ logs = << >>

====
